---- MODULE Spec2Model ----
(***************************************************************************)
(* A model of wavedromtikz.py: the wave symbol table (WAVES,               *)
(* WAVEDROM_NAMES), the brick generator (get_brick), the transition        *)
(* generator (get_transition_brick), the waveform compiler                 *)
(* (render_waveform) and the diagram assembler (render_signal,             *)
(* render_help_lines, render_wavedrom).                                    *)
(*                                                                         *)
(* Numbers.  Python floats that carry a level, a period or a phase are     *)
(* kept as integers counting HALVES: the float r is the integer 2r, so the *)
(* level 0.5 is 1, the period 1.0 is 2 and phase*2.0 is twice the phase's  *)
(* integer.  Python ints (bus numbers, brick counts, %d flags) are kept as *)
(* they are.                                                               *)
(*                                                                         *)
(* Strings.  A Python string that the code indexes or iterates (wave,      *)
(* node, a str-typed data, a data item) is a sequence of one-character     *)
(* strings.  Style tokens and macro names are TLA+ strings.                *)
(*                                                                         *)
(* Output.  One formatted TikZ line is a record                            *)
(*   [macro, nums, styles, text]                                           *)
(* holding the macro's name, its numeric arguments in order, its style     *)
(* arguments in order and its free-text argument (node name, bus datum).   *)
(***************************************************************************)
EXTENDS Integers, Sequences, FiniteSets, TLC

(***************************************************************************)
(* Bounds of the model.                                                    *)
(***************************************************************************)
\* Longest wave string enumerated exhaustively over the whole alphabet.
MaxWaveLen == 2

\* Periods and brick widths range over -MaxPeriod..MaxPeriod halves.
MaxPeriod == 2

\* Phases range over -MaxPhase..MaxPhase halves.
MaxPhase == 2

\* Most signals of an enumerated diagram.
MaxSignals == 2

\* Most get_brick calls made on one descriptor in one run.
MaxCalls == 2

(***************************************************************************)
(* Python values.                                                          *)
(***************************************************************************)
\* None in a style field of a WaveSection.
NoneStyle == "None"

\* None in a position field of a WaveSection (positions are 0, 1, 2 halves).
NonePos == -1

Bool2Int(b) == IF b THEN 1 ELSE 0

\* The value of a one-element set: a local bound once and used many times.
Only(S) == CHOOSE x \in S : TRUE

\* One formatted line of output.
Call(macro, nums, styles, text) ==
  [macro |-> macro, nums |-> nums, styles |-> styles, text |-> text]

(***************************************************************************)
(* The symbol table.                                                       *)
(***************************************************************************)
WaveSection(wave_type, glitch, bus_style, bit_style, bit_start_position, bit_end_position, bit_transition) ==
  [ wave_type          |-> wave_type
  , glitch             |-> glitch
  , bus_style          |-> bus_style
  , bit_style          |-> bit_style
  , bit_start_position |-> bit_start_position
  , bit_end_position   |-> bit_end_position
  , bit_transition     |-> bit_transition ]

\* WAVES["z"]: high impedance, level 0.5.
WAVES_z == WaveSection("bit", FALSE, NoneStyle, "", 1, 1, "curved")

\* WAVES["logic"][level], level in {0, 1}.
WAVES_logic(level) ==
  WaveSection("bit", TRUE, NoneStyle, "", 2 * level, 2 * level, "smooth")

\* WAVES["pulled"][level], level in {0, 1}.
WAVES_pulled(level) ==
  WaveSection("bit", TRUE, NoneStyle, "wave pulled", 2 * level, 2 * level, "curved")

\* ClkLevels whose posedge and negedge keep one level.
ClkLevels_flat(clk_edge) ==
  CASE clk_edge = "0"       -> <<0, 0>>
    [] clk_edge = "1"       -> <<1, 1>>
    [] clk_edge = "posedge" -> <<1, 1>>
    [] clk_edge = "negedge" -> <<0, 0>>

\* The (first, second) levels of the loop at lines 482-484, by clk_edge.
ClkLevels(clk_edge) ==
  CASE clk_edge = "0"       -> <<0, 0>>
    [] clk_edge = "1"       -> <<1, 1>>
    [] clk_edge = "posedge" -> <<1, 0>>
    [] clk_edge = "negedge" -> <<0, 1>>

\* WAVES["clk"][clk_edge][has_arrow].
WAVES_clk(clk_edge, has_arrow) ==
  WaveSection("bit", TRUE, NoneStyle, "",
              2 * ClkLevels(clk_edge)[1], 2 * ClkLevels(clk_edge)[2],
              IF has_arrow THEN "sharparrow" ELSE "sharp")

\* The (style, glitch) of the loop at lines 499-504, by name.
BusStyles(name) ==
  CASE name = "x"      -> <<"wave x", FALSE>>
    [] name = "bus"    -> <<"wave bus", TRUE>>
    [] name = "yellow" -> <<"wave busyellow", TRUE>>
    [] name = "orange" -> <<"wave busorange", TRUE>>
    [] name = "blue"   -> <<"wave busblue", TRUE>>

\* WAVES["bus"][name].
WAVES_bus(name) ==
  WaveSection("bus", BusStyles(name)[2], BusStyles(name)[1], NoneStyle,
              NonePos, NonePos, "smooth")

\* The keys of WAVEDROM_NAMES.
SymbolSet ==
  {"z", "0", "1", "d", "u", "x", "2", "=", "3", "4", "5",
   "p", "P", "n", "N", "l", "L", "h", "H"}

\* Mapping from WaveDrom values to WaveSections.
WAVEDROM_NAMES ==
  [c \in SymbolSet |->
     CASE c = "z" -> WAVES_z
       [] c = "0" -> WAVES_logic(0)
       [] c = "1" -> WAVES_logic(1)
       [] c = "d" -> WAVES_pulled(0)
       [] c = "u" -> WAVES_pulled(1)
       [] c = "x" -> WAVES_bus("x")
       [] c = "2" -> WAVES_bus("bus")
       [] c = "=" -> WAVES_bus("bus")
       [] c = "3" -> WAVES_bus("yellow")
       [] c = "4" -> WAVES_bus("orange")
       [] c = "5" -> WAVES_bus("blue")
       [] c = "p" -> WAVES_clk("posedge", FALSE)
       [] c = "P" -> WAVES_clk("posedge", TRUE)
       [] c = "n" -> WAVES_clk("negedge", FALSE)
       [] c = "N" -> WAVES_clk("negedge", TRUE)
       [] c = "l" -> WAVES_clk("0", FALSE)
       [] c = "L" -> WAVES_clk("0", TRUE)
       [] c = "h" -> WAVES_clk("1", FALSE)
       [] c = "H" -> WAVES_clk("1", TRUE)]

(***************************************************************************)
(* What a call gives back: a value, or an exception.                       *)
(*   err      "none" or the exception's class                              *)
(*   ret      the lines of the returned text (<<>> when nothing returned)  *)
(*   emitted  the lines appended to the local list `out` before the exit   *)
(*   tcalls   the get_transition_brick calls made, in order                *)
(***************************************************************************)
Returned(lines, emitted, tcalls) ==
  [err |-> "none", ret |-> lines, emitted |-> emitted, tcalls |-> tcalls]

Raised(err, emitted, tcalls) ==
  [err |-> err, ret |-> <<>>, emitted |-> emitted, tcalls |-> tcalls]

\* get_brick without the swap of the two positions on odd bricks.
get_brick_noswap(wave, odd_brick, brick_width) ==
  IF wave.wave_type = "bus"
  THEN Call("brickbus", <<brick_width>>, <<wave.bus_style>>, <<>>)
  ELSE Call("brickbit",
            << brick_width
             , wave.bit_start_position
             , wave.bit_end_position
             , Bool2Int(  wave.bit_start_position # wave.bit_end_position
                       /\ odd_brick = 0
                       /\ wave.bit_transition = "sharparrow") >>,
            <<wave.bit_style>>, <<>>)

(***************************************************************************)
(* get_brick (lines 515-539).  odd_brick is 0 or 1, tested for truth.      *)
(* A wave_type other than "bus" and "bit" falls off the end: None.         *)
(***************************************************************************)
get_brick(wave, odd_brick, brick_width) ==
  IF wave.wave_type = "bus"
  THEN Call("brickbus", <<brick_width>>, <<wave.bus_style>>, <<>>)
  ELSE IF wave.wave_type = "bit"
  THEN Call("brickbit",
            << brick_width
             , IF odd_brick # 0 THEN wave.bit_end_position
                                ELSE wave.bit_start_position
             , IF odd_brick # 0 THEN wave.bit_start_position
                                ELSE wave.bit_end_position
             , Bool2Int(  wave.bit_start_position # wave.bit_end_position
                       /\ odd_brick = 0
                       /\ wave.bit_transition = "sharparrow") >>,
            <<wave.bit_style>>, <<>>)
  ELSE Call("None", <<>>, <<>>, <<>>)

(***************************************************************************)
(* get_transition_brick (lines 542-648), one operator per branch of its    *)
(* outer conditional.  `assert False` raises AssertionError.               *)
(***************************************************************************)
\* BusToBus that looks at the styles only and not at the glitch flag.
BusToBus_styleonly(last_wave, wave, brick_width) ==
  IF last_wave.bus_style # wave.bus_style
  THEN Returned(<<Call("brickbustobus", <<brick_width>>,
                       <<last_wave.bus_style, wave.bus_style>>, <<>>)>>,
                <<>>, <<>>)
  ELSE Returned(<<Call("brickbus", <<brick_width>>, <<wave.bus_style>>, <<>>)>>,
                <<>>, <<>>)

\* Lines 547-557: bus to bus.
BusToBus(last_wave, wave, brick_width) ==
  IF last_wave.glitch \/ last_wave.bus_style # wave.bus_style
  THEN Returned(<<Call("brickbustobus", <<brick_width>>,
                       <<last_wave.bus_style, wave.bus_style>>, <<>>)>>,
                <<>>, <<>>)
  ELSE Returned(<<get_brick(wave, 0, brick_width)>>, <<>>, <<>>)

\* BitToBit with the same-level test taken before the glitch test.
BitToBit_plainfirst(last_wave, wave, brick_width) ==
  IF last_wave.bit_end_position = wave.bit_start_position
  THEN Returned(<<get_brick(wave, 0, brick_width)>>, <<>>, <<>>)
  ELSE IF wave.bit_transition \in {"sharp", "sharparrow"}
  THEN Returned(<<Call("bricksharpbittobit",
                       << brick_width
                        , last_wave.bit_end_position
                        , wave.bit_start_position
                        , Bool2Int(wave.bit_transition = "sharparrow") >>,
                       <<wave.bit_style>>, <<>>)>>, <<>>, <<>>)
  ELSE IF wave.bit_transition = "smooth"
  THEN Returned(<<Call("bricksmoothbittobit",
                       << brick_width
                        , last_wave.bit_end_position
                        , wave.bit_start_position >>,
                       <<last_wave.bit_style, wave.bit_style>>, <<>>)>>,
                <<>>, <<>>)
  ELSE Returned(<<Call("brickcurvedbittobit",
                       << brick_width
                        , last_wave.bit_end_position
                        , wave.bit_start_position >>,
                       <<last_wave.bit_style, wave.bit_style>>, <<>>)>>,
                <<>>, <<>>)

\* Lines 558-610: bit to bit.
BitToBit(last_wave, wave, brick_width) ==
  IF last_wave.glitch /\ last_wave.bit_end_position = wave.bit_start_position
  THEN IF wave.bit_transition \in {"sharp", "sharparrow"}
       THEN Returned(<<Call("bricksharpbittobit",
                            << brick_width
                             , last_wave.bit_end_position
                             , wave.bit_start_position
                             , Bool2Int(wave.bit_transition = "sharparrow") >>,
                            <<wave.bit_style>>, <<>>)>>, <<>>, <<>>)
       ELSE Returned(<<Call("brickbitglitch",
                            <<brick_width, wave.bit_start_position>>,
                            <<wave.bit_style>>, <<>>)>>, <<>>, <<>>)
  ELSE IF last_wave.bit_end_position = wave.bit_start_position
  THEN Returned(<<get_brick(wave, 0, brick_width)>>, <<>>, <<>>)
  ELSE IF wave.bit_transition \in {"sharp", "sharparrow"}
  THEN Returned(<<Call("bricksharpbittobit",
                       << brick_width
                        , last_wave.bit_end_position
                        , wave.bit_start_position
                        , Bool2Int(wave.bit_transition = "sharparrow") >>,
                       <<wave.bit_style>>, <<>>)>>, <<>>, <<>>)
  ELSE IF wave.bit_transition = "smooth"
  THEN Returned(<<Call("bricksmoothbittobit",
                       << brick_width
                        , last_wave.bit_end_position
                        , wave.bit_start_position >>,
                       <<last_wave.bit_style, wave.bit_style>>, <<>>)>>,
                <<>>, <<>>)
  ELSE IF wave.bit_transition = "curved"
  THEN Returned(<<Call("brickcurvedbittobit",
                       << brick_width
                        , last_wave.bit_end_position
                        , wave.bit_start_position >>,
                       <<last_wave.bit_style, wave.bit_style>>, <<>>)>>,
                <<>>, <<>>)
  ELSE Raised("AssertionError", <<>>, <<>>)

\* Lines 611-618: bit to bus.
BitToBus(last_wave, wave, brick_width) ==
  Returned(<<Call("bricksmoothbittobus",
                  <<brick_width, last_wave.bit_end_position>>,
                  <<last_wave.bit_style, wave.bus_style>>, <<>>)>>,
           <<>>, <<>>)

\* BusToBit that branches on the transition kind of last_wave.
BusToBit_prevkind(last_wave, wave, brick_width) ==
  IF last_wave.bit_transition \in {"sharp", "sharparrow"}
  THEN Returned(<<Call("bricksharpbustobit",
                       << brick_width
                        , wave.bit_start_position
                        , Bool2Int(last_wave.bit_transition = "sharparrow") >>,
                       <<wave.bit_style>>, <<>>)>>, <<>>, <<>>)
  ELSE IF last_wave.bit_transition = "smooth"
  THEN Returned(<<Call("bricksmoothbustobit",
                       <<brick_width, wave.bit_start_position>>,
                       <<last_wave.bus_style, wave.bit_style>>, <<>>)>>,
                <<>>, <<>>)
  ELSE Returned(<<Call("brickcurvedbustobit",
                       <<brick_width, wave.bit_start_position>>,
                       <<last_wave.bus_style, wave.bit_style>>, <<>>)>>,
                <<>>, <<>>)

\* BusToBit whose smooth and curved calls leave the bus style out.
BusToBit_nobusstyle(last_wave, wave, brick_width) ==
  IF wave.bit_transition \in {"sharp", "sharparrow"}
  THEN Returned(<<Call("bricksharpbustobit",
                       << brick_width
                        , wave.bit_start_position
                        , Bool2Int(wave.bit_transition = "sharparrow") >>,
                       <<wave.bit_style>>, <<>>)>>, <<>>, <<>>)
  ELSE IF wave.bit_transition = "smooth"
  THEN Returned(<<Call("bricksmoothbustobit",
                       <<brick_width, wave.bit_start_position>>,
                       <<wave.bit_style, wave.bit_style>>, <<>>)>>,
                <<>>, <<>>)
  ELSE Returned(<<Call("brickcurvedbustobit",
                       <<brick_width, wave.bit_start_position>>,
                       <<wave.bit_style, wave.bit_style>>, <<>>)>>,
                <<>>, <<>>)

\* Lines 619-646: bus to bit.
BusToBit(last_wave, wave, brick_width) ==
  IF wave.bit_transition \in {"sharp", "sharparrow"}
  THEN Returned(<<Call("bricksharpbustobit",
                       << brick_width
                        , wave.bit_start_position
                        , Bool2Int(wave.bit_transition = "sharparrow") >>,
                       <<wave.bit_style>>, <<>>)>>, <<>>, <<>>)
  ELSE IF wave.bit_transition = "smooth"
  THEN Returned(<<Call("bricksmoothbustobit",
                       <<brick_width, wave.bit_start_position>>,
                       <<last_wave.bus_style, wave.bit_style>>, <<>>)>>,
                <<>>, <<>>)
  ELSE IF wave.bit_transition = "curved"
  THEN Returned(<<Call("brickcurvedbustobit",
                       <<brick_width, wave.bit_start_position>>,
                       <<last_wave.bus_style, wave.bit_style>>, <<>>)>>,
                <<>>, <<>>)
  ELSE Raised("AssertionError", <<>>, <<>>)

\* get_transition_brick without the bit-to-bus branch of lines 611-618.
get_transition_brick_nobittobus(last_wave, wave, brick_width) ==
  IF last_wave.wave_type = "bus" /\ wave.wave_type = "bus"
  THEN BusToBus(last_wave, wave, brick_width)
  ELSE IF last_wave.wave_type = "bit" /\ wave.wave_type = "bit"
  THEN BitToBit(last_wave, wave, brick_width)
  ELSE IF last_wave.wave_type = "bus" /\ wave.wave_type = "bit"
  THEN BusToBit(last_wave, wave, brick_width)
  ELSE Raised("AssertionError", <<>>, <<>>)

get_transition_brick(last_wave, wave, brick_width) ==
  IF last_wave.wave_type = "bus" /\ wave.wave_type = "bus"
  THEN BusToBus(last_wave, wave, brick_width)
  ELSE IF last_wave.wave_type = "bit" /\ wave.wave_type = "bit"
  THEN BitToBit(last_wave, wave, brick_width)
  ELSE IF last_wave.wave_type = "bit" /\ wave.wave_type = "bus"
  THEN BitToBus(last_wave, wave, brick_width)
  ELSE IF last_wave.wave_type = "bus" /\ wave.wave_type = "bit"
  THEN BusToBit(last_wave, wave, brick_width)
  ELSE Raised("AssertionError", <<>>, <<>>)

(***************************************************************************)
(* render_waveform (lines 675-772).                                        *)
(*                                                                         *)
(* signal_params is the record [wave, node, data, phase, period] after the *)
(* five .get calls of lines 679-683; a key that is absent has its default  *)
(* ("" for wave and node, [] for data, 0.0 for phase, 1.0 for period).     *)
(* data is the sequence of items that zip iterates at line 769: the        *)
(* elements of a list, or the characters of a str.                         *)
(***************************************************************************)
\* The characters tested by `signal in ".|"`.
Markers == {".", "|"}

\* The characters tested by `signal in '=2345'`.
BusStartChars == {"=", "2", "3", "4", "5"}

\* PeriodAccepted with a strict comparison: a period of 0 is rejected.
PeriodAccepted_strict(period) == period > 0

\* Line 685: the condition of the assert.
PeriodAccepted(period) == period >= 0

\* The builtin isinstance called with nargs arguments: it takes exactly two.
isinstance_err(nargs) == IF nargs = 2 THEN "none" ELSE "TypeError"

\* Line 692: node += "." * max(0, len(wave)-len(node)).
PadNode(wave, node) ==
  node \o [i \in 1 .. (IF Len(wave) > Len(node) THEN Len(wave) - Len(node) ELSE 0)
             |-> "."]

CoordLastBrick      == Call("coordinate last brick", <<>>, <<>>, <<>>)
CoordLastTransition == Call("coordinate last transition", <<>>, <<>>, <<>>)
CoordBusStart       == Call("coordinate bus start", <<>>, <<>>, <<>>)
CoordBus(n)         == Call("coordinate bus", <<n>>, <<>>, <<>>)
CoordNode(name)     == Call("coordinate node", <<>>, <<>>, <<name>>)
BusData(i, datum)   == Call("busdata", <<i>>, <<>>, datum)

\* Lines 704-710: the phase calls appended to out.
PhaseCalls(wave, phase, period) ==
     (IF phase < 0 THEN <<Call("advancebrick", <<-phase * 2>>, <<>>, <<>>)>>
                   ELSE <<>>)
  \o (IF phase > 0
      THEN <<Call("truncatewaveform", <<period, phase * 2, Len(wave) * 2>>,
                  <<>>, <<>>)>>
      ELSE <<>>)

\* The loop state lp is the record
\*   [out, last_signal, bus_started, bus_number, tcalls, err]
\* of the locals of render_waveform, the get_transition_brick calls made and
\* the exception raised, if any.

\* Line 720: the coordinate of the current transition point.
MarkTransition(lp) ==
  [lp EXCEPT !.out = Append(@, CoordLastTransition)]

\* Lines 723-728: a symbol that is no marker closes the open bus.
CloseBus(lp, signal) ==
  IF signal \notin Markers /\ lp.bus_started
  THEN [lp EXCEPT !.out = Append(@, CoordBus(lp.bus_number)),
                  !.bus_number = @ + 1,
                  !.bus_started = FALSE]
  ELSE lp

\* Lines 731-735: a bus value bookmarks the start of a bus.
OpenBus(lp, signal) ==
  IF signal \in BusStartChars
  THEN [lp EXCEPT !.out = Append(@, CoordBusStart), !.bus_started = TRUE]
  ELSE lp

\* Line 737.
ContinuedSignal(lp, signal) ==
  IF signal \in Markers THEN lp.last_signal ELSE signal

\* Lines 739-745: the first half of the timeslot.  A symbol that is no key
\* of WAVEDROM_NAMES is a KeyError.
FirstHalf(lp, time, signal, period) ==
  IF time = 0 \/ signal \in Markers
  THEN IF ContinuedSignal(lp, signal) \notin DOMAIN WAVEDROM_NAMES
       THEN [lp EXCEPT !.err = "KeyError"]
       ELSE [lp EXCEPT !.out =
               Append(@, get_brick(WAVEDROM_NAMES[ContinuedSignal(lp, signal)],
                                   0, period))]
  ELSE IF \/ lp.last_signal \notin DOMAIN WAVEDROM_NAMES
          \/ ContinuedSignal(lp, signal) \notin DOMAIN WAVEDROM_NAMES
       THEN [lp EXCEPT !.err = "KeyError"]
       ELSE [lp EXCEPT
               !.tcalls = Append(@, [ time |-> time
                                    , from |-> lp.last_signal
                                    , to   |-> ContinuedSignal(lp, signal) ]),
               !.err = get_transition_brick(
                         WAVEDROM_NAMES[lp.last_signal],
                         WAVEDROM_NAMES[ContinuedSignal(lp, signal)], period).err,
               !.out = @ \o get_transition_brick(
                         WAVEDROM_NAMES[lp.last_signal],
                         WAVEDROM_NAMES[ContinuedSignal(lp, signal)], period).ret]

\* Lines 748-758: the second half, the node, the spacer, and last_signal.
SecondHalf(lp, signal, node_name, period) ==
  IF lp.err # "none" THEN lp
  ELSE [lp EXCEPT
          !.out =    @
                  \o <<get_brick(WAVEDROM_NAMES[ContinuedSignal(lp, signal)],
                                 1, period)>>
                  \o (IF node_name # "." THEN <<CoordNode(<<node_name>>)>>
                                         ELSE <<>>)
                  \o (IF signal = "|"
                      THEN <<Call("brickspaceroverly", <<period>>, <<>>, <<>>)>>
                      ELSE <<>>),
          !.last_signal = ContinuedSignal(lp, signal)]

\* Lines 717-758: one pass of the loop body at the 1-based index i
\* (time = i - 1).
LoopBody(wave, node, period, i, lp) ==
  Only({ SecondHalf(first, wave[i], node[i], period) :
           first \in { FirstHalf(opened, i - 1, wave[i], period) :
             opened \in { OpenBus(closed, wave[i]) :
               closed \in { CloseBus(marked, wave[i]) :
                 marked \in { MarkTransition(lp) } } } } })

\* Lines 717-758: the loop, from index i on; an exception ends it.
RECURSIVE Loop(_, _, _, _, _)
Loop(wave, node, period, i, lp) ==
  IF i > Len(wave) \/ lp.err # "none" THEN lp
  ELSE Loop(wave, node, period, i + 1, LoopBody(wave, node, period, i, lp))

\* Lines 768-770: one \busdata per pair of zip(range(bus_number), data).
BusLabels(bus_number, data) ==
  [i \in 1 .. (IF bus_number < Len(data) THEN bus_number ELSE Len(data))
     |-> BusData(i - 1, data[i])]

\* Lines 698-714: the locals before the loop.
LoopStart(wave, phase, period) ==
  [ out         |-> <<CoordLastBrick>> \o PhaseCalls(wave, phase, period)
  , last_signal |-> IF wave[1] \in Markers THEN "x" ELSE wave[1]
  , bus_started |-> FALSE
  , bus_number  |-> 0
  , tcalls      |-> <<>>
  , err         |-> "none" ]

\* Lines 760-766: the final bus label closes a bus that is still open.
FinalBus(lp) ==
  IF lp.err = "none" /\ lp.bus_started
  THEN [lp EXCEPT !.out = Append(@, CoordBus(lp.bus_number)),
                  !.bus_number = @ + 1,
                  !.bus_started = FALSE]
  ELSE lp

\* Lines 768-772: the bus labels and the return; an exception raised in the
\* loop leaves the function instead.
Finish(lp, data) ==
  IF lp.err # "none" THEN Raised(lp.err, lp.out, lp.tcalls)
  ELSE Returned(lp.out \o BusLabels(lp.bus_number, data),
                lp.out \o BusLabels(lp.bus_number, data), lp.tcalls)

\* Lines 698-772: the body of render_waveform after the data split.
Compile(wave, node, data, phase, period) ==
  Only({ Finish(flushed, data) :
           flushed \in { FinalBus(lp) :
             lp \in { Loop(wave, node, period, 1,
                           LoopStart(wave, phase, period)) } } })

\* Lines 675-772.  Line 695 evaluates `isinstance(data) is str`: the call
\* has one argument; had it returned, a bool is never the type str, so the
\* split of line 696 is not taken.
render_waveform(signal_params) ==
  LET wave   == signal_params.wave
      node   == signal_params.node
      data   == signal_params.data
      phase  == signal_params.phase
      period == signal_params.period
  IN  IF ~PeriodAccepted(period) THEN Raised("AssertionError", <<>>, <<>>)
      ELSE IF wave = <<>> THEN Returned(<<>>, <<>>, <<>>)
      ELSE IF isinstance_err(1) # "none"
      THEN Raised(isinstance_err(1), <<>>, <<>>)
      ELSE Compile(wave, PadNode(wave, node), data, phase, period)

(***************************************************************************)
(* The diagram assembler.                                                  *)
(***************************************************************************)
\* render_signal (lines 775-790): the waveform between the label and the
\* scope's end; an exception of render_waveform passes through.
render_signal(signal_params) ==
  Only({ IF w.err # "none" THEN Raised(w.err, <<>>, w.tcalls)
         ELSE Returned(   <<Call("signallabel", <<>>, <<>>, <<>>)>>
                       \o w.ret
                       \o <<Call("coordinate last waveform", <<>>, <<>>, <<>>)>>,
                       <<>>, w.tcalls)
         : w \in { render_waveform(signal_params) } })

\* int(x) of a float x kept in halves: truncation towards zero.
PyInt(h) == IF h >= 0 THEN h \div 2 ELSE -((-h) \div 2)

\* max of a non-empty set of integers.
PyMax(S) == CHOOSE m \in S : \A n \in S : n <= m

\* render_help_lines (lines 793-813): max() of no signal is a ValueError.
render_help_lines(wavedrom) ==
  IF Len(wavedrom) = 0 THEN Raised("ValueError", <<>>, <<>>)
  ELSE Returned(
         <<Call("helplines",
                << PyMax({ PyInt(Len(wavedrom[k].wave) * wavedrom[k].period)
                             - PyInt(wavedrom[k].phase)
                           : k \in 1 .. Len(wavedrom) })
                 , Len(wavedrom) >>,
                <<>>, <<>>)>>,
         <<>>, <<>>)

\* render_wavedrom (lines 816-822), the step taken at position pc on the
\* signal at the 1-based index idx: the "%s%s%s" tuple is evaluated left to
\* right, so the help lines come first and then the generator of the join
\* renders one signal after another; the first exception ends the call.
HelpLinesStep(wavedrom) == render_help_lines(wavedrom)

SignalStep(wavedrom, idx) == render_signal(wavedrom[idx])

(***************************************************************************)
(* The inputs of a run.                                                    *)
(***************************************************************************)
\* A character that is no key of WAVEDROM_NAMES and no marker.
UnknownChar == "q"

Alphabet == SymbolSet \cup Markers \cup {UnknownChar}

\* Longer waves named by the specification's scenarios.
ScenarioWaves ==
  { <<"0", "0", ".", "1", "1">>, <<"2", ".", "2", "x">>, <<"0", "2", "|", "q">> }

Waves ==
  UNION { [1 .. n -> Alphabet] : n \in 0 .. MaxWaveLen } \cup ScenarioWaves

Nodes == { <<>>, <<"a">> }

Datas == { <<>>, << <<"D">> >>, << <<"D">>, <<"E", "F">> >> }

Phases == -MaxPhase .. MaxPhase

Periods == -MaxPeriod .. MaxPeriod

SignalParams ==
  [wave : Waves, node : Nodes, data : Datas, phase : Phases, period : Periods]

\* The record of a signal that gives only its wave.
DefaultParams(wave) ==
  [wave |-> wave, node |-> <<>>, data |-> <<>>, phase |-> 0, period |-> 2]

\* The signals of the enumerated diagrams.
DiagramSignals ==
     { DefaultParams(w) : w \in { <<>>, <<"0", "1">>, <<"2", "q">> } }
  \cup { [DefaultParams(<<>>) EXCEPT !.period = -2, !.data = d] : d \in Datas }

Diagrams == UNION { [1 .. n -> DiagramSignals] : n \in 0 .. MaxSignals }

\* The WaveSections of the symbol table.
Descriptors == { WAVEDROM_NAMES[c] : c \in SymbolSet }

\* The value of an argument the run's entry point does not take.
NoWave == WaveSection("None", FALSE, NoneStyle, NoneStyle, NonePos, NonePos, "None")

NoResult == Raised("pending", <<>>, <<>>)

(***************************************************************************)
(* The state of one run: the entry point fn is called once on its          *)
(* arguments.                                                              *)
(*   names          the module-level dict WAVEDROM_NAMES (lines 652-672),  *)
(*                  which the functions read and no statement assigns      *)
(*   fn             the function called                                    *)
(*   pc             "start", then "done"; render_wavedrom passes through   *)
(*                  "signals" and may end in "raised"                      *)
(*   last_wave, wave, brick_width   arguments of the two generators        *)
(*   bricks         the get_brick calls made so far: [odd_brick, call]     *)
(*   signal_params  argument of render_waveform                            *)
(*   wavedrom       wavedrom["signal"], argument of render_wavedrom        *)
(*   idx            the next signal the join's generator renders           *)
(*   parts          what render_wavedrom has collected so far              *)
(*   result         what the call gave back                                *)
(***************************************************************************)
VARIABLES names, fn, pc, last_wave, wave, brick_width, bricks, signal_params,
          wavedrom, idx, parts, result

vars == << names, fn, pc, last_wave, wave, brick_width, bricks, signal_params,
           wavedrom, idx, parts, result >>

Init ==
  /\ names = WAVEDROM_NAMES
  /\ pc = "start"
  /\ bricks = <<>>
  /\ idx = 1
  /\ parts = <<>>
  /\ result = NoResult
  /\ \/ /\ fn = "get_brick"
        /\ wave \in { names[c] : c \in SymbolSet }
        /\ brick_width \in 0 .. MaxPeriod
        /\ last_wave = NoWave
        /\ signal_params = DefaultParams(<<>>)
        /\ wavedrom = <<>>
     \/ /\ fn = "get_transition_brick"
        /\ last_wave \in { names[c] : c \in SymbolSet }
        /\ wave \in { names[c] : c \in SymbolSet }
        /\ brick_width \in 0 .. MaxPeriod
        /\ signal_params = DefaultParams(<<>>)
        /\ wavedrom = <<>>
     \/ /\ fn = "render_waveform"
        /\ signal_params \in SignalParams
        /\ last_wave = NoWave
        /\ wave = NoWave
        /\ brick_width = 0
        /\ wavedrom = <<>>
     \/ /\ fn = "render_wavedrom"
        /\ wavedrom \in Diagrams
        /\ last_wave = NoWave
        /\ wave = NoWave
        /\ brick_width = 0
        /\ signal_params = DefaultParams(<<>>)

\* A caller applies get_brick to the descriptor, for either half of a timeslot.
GetBrick(odd_brick) ==
  /\ fn = "get_brick"
  /\ Len(bricks) < MaxCalls
  /\ bricks' = Append(bricks, [ odd_brick |-> odd_brick
                              , call |-> get_brick(wave, odd_brick, brick_width) ])
  /\ pc' = "done"
  /\ UNCHANGED << names, fn, last_wave, wave, brick_width, signal_params,
                  wavedrom, idx, parts, result >>

GetTransitionBrick ==
  /\ fn = "get_transition_brick"
  /\ pc = "start"
  /\ result' = get_transition_brick(last_wave, wave, brick_width)
  /\ pc' = "done"
  /\ UNCHANGED << names, fn, last_wave, wave, brick_width, bricks, signal_params,
                  wavedrom, idx, parts >>

RenderWaveform ==
  /\ fn = "render_waveform"
  /\ pc = "start"
  /\ result' = render_waveform(signal_params)
  /\ pc' = "done"
  /\ UNCHANGED << names, fn, last_wave, wave, brick_width, bricks, signal_params,
                  wavedrom, idx, parts >>

\* render_wavedrom: TIKZ_HEADER, then render_help_lines.
RenderHelpLines ==
  /\ fn = "render_wavedrom"
  /\ pc = "start"
  /\ \E h \in { HelpLinesStep(wavedrom) } :
         IF h.err # "none"
         THEN /\ pc' = "raised"
              /\ result' = Raised(h.err, <<>>, <<>>)
              /\ parts' = parts
         ELSE /\ pc' = "signals"
              /\ parts' = <<Call("TIKZ_HEADER", <<>>, <<>>, <<>>)>> \o h.ret
              /\ result' = result
  /\ UNCHANGED << names, fn, last_wave, wave, brick_width, bricks, signal_params,
                  wavedrom, idx >>

\* render_wavedrom: the generator renders the next signal.
RenderSignal ==
  /\ fn = "render_wavedrom"
  /\ pc = "signals"
  /\ idx <= Len(wavedrom)
  /\ \E r \in { SignalStep(wavedrom, idx) } :
         IF r.err # "none"
         THEN /\ pc' = "raised"
              /\ result' = Raised(r.err, <<>>, r.tcalls)
              /\ UNCHANGED << idx, parts >>
         ELSE /\ parts' = parts \o r.ret
              /\ idx' = idx + 1
              /\ UNCHANGED << pc, result >>
  /\ UNCHANGED << names, fn, last_wave, wave, brick_width, bricks, signal_params,
                  wavedrom >>

\* render_wavedrom: the generator is exhausted, the text is returned.
ReturnWavedrom ==
  /\ fn = "render_wavedrom"
  /\ pc = "signals"
  /\ idx > Len(wavedrom)
  /\ pc' = "done"
  /\ result' = Returned(parts, <<>>, <<>>)
  /\ UNCHANGED << names, fn, last_wave, wave, brick_width, bricks, signal_params,
                  wavedrom, idx, parts >>

Next ==
  \/ \E odd_brick \in {0, 1} : GetBrick(odd_brick)
  \/ GetTransitionBrick
  \/ RenderWaveform
  \/ RenderHelpLines
  \/ RenderSignal
  \/ ReturnWavedrom

Spec == Init /\ [][Next]_vars

(***************************************************************************)
(* Vocabulary of the properties.                                           *)
(***************************************************************************)
\* A finished call of render_waveform.
CompileDone == fn = "render_waveform" /\ pc = "done"

\* The wave is written over the symbol set, "." and "|".
WellFormed(w) == \A i \in DOMAIN w : w[i] \in SymbolSet \cup Markers

\* The lines of a sequence that call the macro m.
CallsOf(lines, m) == SelectSeq(lines, LAMBDA c : c.macro = m)

\* The effective symbol of every timeslot: a marker carries the previous
\* effective symbol forward (x before the first symbol).
Effective(w) ==
  LET eff[i \in 0 .. Len(w)] ==
        IF i = 0 THEN "x" ELSE IF w[i] \in Markers THEN eff[i - 1] ELSE w[i]
  IN  [i \in 1 .. Len(w) |-> eff[i]]

\* The number of maximal runs of one effective bus-type symbol.
NumSpans(w) ==
  Cardinality({ i \in 1 .. Len(w) :
                  /\ WAVEDROM_NAMES[Effective(w)[i]].wave_type = "bus"
                  /\ i = 1 \/ Effective(w)[i - 1] # Effective(w)[i] })

\* The macros of the plain bricks and of the transitions.
BrickMacros ==
  { "brickbus", "brickbit", "brickbitglitch", "bricksharpbittobit",
    "bricksharpbustobit", "bricksmoothbittobit", "brickcurvedbittobit",
    "bricksmoothbittobus", "brickbustobus", "bricksmoothbustobit",
    "brickcurvedbustobit" }

BrickCalls(lines) == SelectSeq(lines, LAMBDA c : c.macro \in BrickMacros)

\* The two brick-class calls of the 1-based timeslot t.
ExpectedSlot(w, t, period) ==
  << IF t = 1 \/ w[t] \in Markers
     THEN get_brick(WAVEDROM_NAMES[Effective(w)[t]], 0, period)
     ELSE get_transition_brick(WAVEDROM_NAMES[Effective(w)[t - 1]],
                               WAVEDROM_NAMES[Effective(w)[t]], period).ret[1]
   , get_brick(WAVEDROM_NAMES[Effective(w)[t]], 1, period) >>

\* The brick-class calls of a whole wave, timeslot after timeslot.
ExpectedBricks(w, period) ==
  LET acc[t \in 0 .. Len(w)] ==
        IF t = 0 THEN <<>> ELSE acc[t - 1] \o ExpectedSlot(w, t, period)
  IN  acc[Len(w)]

(***************************************************************************)
(* Properties.                                                             *)
(***************************************************************************)
\* C1: a call of render_waveform with a negative period raises the invalid-
\* period error (the assert of line 685) with nothing appended to out and
\* nothing returned, whatever wave, phase, node and data are; a period of 0
\* passes that validation.
C1_NegativePeriodRejected ==
  CompileDone =>
    /\ signal_params.period < 0 =>
         /\ result.err = "AssertionError"
         /\ result.emitted = <<>>
         /\ result.ret = <<>>
    /\ signal_params.period = 0 => result.err # "AssertionError"

\* C1 witness: a negative period rejected on a non-empty wave with a phase,
\* a node and data.
C1_Witness ==
  /\ CompileDone
  /\ signal_params.period < 0
  /\ signal_params.wave = <<"2", "q">>
  /\ signal_params.phase > 0
  /\ signal_params.node # <<>>
  /\ signal_params.data # <<>>
  /\ result.err = "AssertionError"

\* C2: every character of the symbol set is a key of the symbol table, and
\* compiling the wave cc with default period, phase, node and data raises
\* nothing, for every symbol c.
C2_EverySymbolCompiles ==
  /\ \A c \in {"0", "1", "x", "z", "u", "d", "=", "2", "3", "4", "5",
               "p", "P", "n", "N", "l", "L", "h", "H"} :
       c \in DOMAIN WAVEDROM_NAMES
  /\ (CompileDone /\ \E c \in SymbolSet : signal_params = DefaultParams(<<c, c>>))
       => result.err = "none"

\* C3: for every wave over the symbol set, "." and "|", the compile's output
\* holds as many bus-label anchors as the wave has maximal contiguous
\* bus-type spans (the wave 22: one anchor).
C3_AnchorsEqualSpans ==
  (CompileDone /\ WellFormed(signal_params.wave) /\ signal_params.period >= 0)
    => Len(CallsOf(result.ret, "coordinate bus")) = NumSpans(signal_params.wave)

\* C4: the brick-class calls of the compile's output are, timeslot after
\* timeslot, the first half (a plain brick of parity 0 at timeslot 0 and at
\* a marker, a transition otherwise) and then the plain brick of parity 1.
C4_TwoBricksPerTimeslot ==
  (CompileDone /\ WellFormed(signal_params.wave) /\ signal_params.period >= 0)
    => BrickCalls(result.ret)
         = ExpectedBricks(signal_params.wave, signal_params.period)

\* C5: compiling the wave 00.11 calls the transition generator for the change
\* from 0 to 1 (timeslot 3) and at no other timeslot.
C5_TransitionOnlyOnChange ==
  (   CompileDone
   /\ signal_params.wave = <<"0", "0", ".", "1", "1">>
   /\ signal_params.period >= 0)
    => result.tcalls = << [time |-> 3, from |-> "0", to |-> "1"] >>

\* C6: for a BIT descriptor, take any get_brick call of parity 0 and any of
\* parity 1.  If startLevel = endLevel the two bricks are the same call, with
\* both levels at that level and no arrow.  Otherwise the parity-1 brick has
\* the two levels of the parity-0 brick swapped and no arrow, and the
\* parity-0 brick has an arrow only if the transition kind is sharparrow.
C6_BrickParity ==
  (fn = "get_brick" /\ wave.wave_type = "bit") =>
    \A i, j \in DOMAIN bricks :
      (bricks[i].odd_brick = 0 /\ bricks[j].odd_brick = 1) =>
        IF wave.bit_start_position = wave.bit_end_position
        THEN /\ bricks[i].call = bricks[j].call
             /\ bricks[i].call.nums[2] = wave.bit_start_position
             /\ bricks[i].call.nums[3] = wave.bit_start_position
             /\ bricks[i].call.nums[4] = 0
        ELSE /\ bricks[i].call.nums[2] = wave.bit_start_position
             /\ bricks[i].call.nums[3] = wave.bit_end_position
             /\ bricks[j].call.nums[2] = bricks[i].call.nums[3]
             /\ bricks[j].call.nums[3] = bricks[i].call.nums[2]
             /\ bricks[j].call.nums[4] = 0
             /\ bricks[i].call.nums[4] = 1 => wave.bit_transition = "sharparrow"

\* C6 witness: both bricks of the arrowed posedge clock P, the first with its
\* arrow.
C6_Witness ==
  /\ fn = "get_brick"
  /\ wave = WAVEDROM_NAMES["P"]
  /\ Len(bricks) = 2
  /\ bricks[1].odd_brick = 0
  /\ bricks[2].odd_brick = 1
  /\ bricks[1].call.nums[4] = 1

\* C8: for a non-empty wave and a valid period, a negative phase -p gives
\* exactly one \advancebrick of 2p and no \truncatewaveform, a positive phase
\* p gives exactly one \truncatewaveform of offset 2p and no \advancebrick,
\* a phase of 0 gives neither; the call stands before every brick call.
C8_PhaseMirror ==
  (   CompileDone
   /\ signal_params.wave # <<>>
   /\ WellFormed(signal_params.wave)
   /\ signal_params.period >= 0)
    => LET adv  == CallsOf(result.ret, "advancebrick")
           clip == CallsOf(result.ret, "truncatewaveform")
       IN  /\ signal_params.phase < 0 =>
                /\ Len(adv) = 1
                /\ adv[1].nums = << 2 * (-signal_params.phase) >>
                /\ clip = <<>>
                /\ result.ret[2] = adv[1]
           /\ signal_params.phase > 0 =>
                /\ Len(clip) = 1
                /\ clip[1].nums[2] = 2 * signal_params.phase
                /\ adv = <<>>
                /\ result.ret[2] = clip[1]
           /\ signal_params.phase = 0 => adv = <<>> /\ clip = <<>>

\* C9: a wave holding a character that is neither a symbol nor a marker
\* makes the compile raise the unknown-symbol error (KeyError) and return
\* nothing; a diagram holding such a signal ends in an exception, with no
\* output.
C9_UnknownSymbolError ==
  /\ (   CompileDone
      /\ ~WellFormed(signal_params.wave)
      /\ signal_params.period >= 0)
       => result.err = "KeyError" /\ result.ret = <<>>
  /\ (   fn = "render_wavedrom"
      /\ pc \in {"done", "raised"}
      /\ \E k \in DOMAIN wavedrom : ~WellFormed(wavedrom[k].wave))
       => pc = "raised" /\ result.ret = <<>>

\* C10: for two BUS descriptors, get_transition_brick returns a \brickbustobus
\* carrying prev's and next's fill styles if prev.glitch is set or the styles
\* differ, and otherwise the parity-0 brick of get_brick for next; 2 -> 2 is
\* a \brickbustobus, x -> x a plain \brickbus.
C10_BusToBus ==
  (   fn = "get_transition_brick" /\ pc = "done"
   /\ last_wave.wave_type = "bus" /\ wave.wave_type = "bus") =>
    /\ result.err = "none"
    /\ IF last_wave.glitch \/ last_wave.bus_style # wave.bus_style
       THEN result.ret = << Call("brickbustobus", <<brick_width>>,
                                 <<last_wave.bus_style, wave.bus_style>>, <<>>) >>
       ELSE result.ret = << get_brick(wave, 0, brick_width) >>
    /\ (last_wave = WAVEDROM_NAMES["2"] /\ wave = WAVEDROM_NAMES["2"])
         => result.ret[1].macro = "brickbustobus"
    /\ (last_wave = WAVEDROM_NAMES["x"] /\ wave = WAVEDROM_NAMES["x"])
         => result.ret[1].macro = "brickbus"

\* C10 witness: the transition 2 -> 2, a \brickbustobus between equal styles.
C10_Witness ==
  /\ fn = "get_transition_brick"
  /\ pc = "done"
  /\ last_wave = WAVEDROM_NAMES["2"]
  /\ wave = WAVEDROM_NAMES["2"]
  /\ result.ret[1].macro = "brickbustobus"
  /\ result.ret[1].styles = <<"wave bus", "wave bus">>

\* A finished direct call of get_transition_brick.
TransitionDone == fn = "get_transition_brick" /\ pc = "done"

\* C11: for two BIT descriptors with prev's end level equal to next's start
\* level: if prev.glitch is set the call is a glitch shape, the sharp notch
\* \bricksharpbittobit (with the arrow option) when next's transition kind is
\* sharp or sharparrow and the generic \brickbitglitch for every other kind;
\* if prev.glitch is not set it is the parity-0 brick of get_brick for next.
\* The glitch test comes first.
C11_BitGlitch ==
  (   TransitionDone
   /\ last_wave.wave_type = "bit" /\ wave.wave_type = "bit"
   /\ last_wave.bit_end_position = wave.bit_start_position) =>
    /\ result.err = "none"
    /\ IF last_wave.glitch
       THEN IF wave.bit_transition \in {"sharp", "sharparrow"}
            THEN result.ret =
                   << Call("bricksharpbittobit",
                           << brick_width
                            , last_wave.bit_end_position
                            , wave.bit_start_position
                            , Bool2Int(wave.bit_transition = "sharparrow") >>,
                           <<wave.bit_style>>, <<>>) >>
            ELSE result.ret =
                   << Call("brickbitglitch",
                           <<brick_width, wave.bit_start_position>>,
                           <<wave.bit_style>>, <<>>) >>
       ELSE result.ret = << get_brick(wave, 0, brick_width) >>

\* C11 witness: the transition 0 -> 0, same level with the glitch flag set:
\* a \brickbitglitch.
C11_Witness ==
  /\ TransitionDone
  /\ last_wave = WAVEDROM_NAMES["0"]
  /\ wave = WAVEDROM_NAMES["0"]
  /\ result.ret[1].macro = "brickbitglitch"

\* The shape family of a transition macro.
ShapeFamily(macro) ==
  CASE macro \in {"bricksharpbittobit", "bricksharpbustobit"}   -> "sharp"
    [] macro \in {"bricksmoothbittobit", "bricksmoothbustobit"} -> "smooth"
    [] macro \in {"brickcurvedbittobit", "brickcurvedbustobit"} -> "curved"
    [] OTHER -> "none"

\* The shape family that a transition kind asks for.
KindFamily(bit_transition) ==
  CASE bit_transition \in {"sharp", "sharparrow"} -> "sharp"
    [] bit_transition = "smooth"                  -> "smooth"
    [] bit_transition = "curved"                  -> "curved"
    [] OTHER -> "unknown"

\* C12: when next is a BIT and prev is either a BIT whose end level differs
\* from next's start level or a BUS, the shape family of the call is the one
\* of next's transition kind: sharp for sharp and sharparrow (arrow flag set
\* iff sharparrow), smooth for smooth, curved for curved, whatever prev's
\* transition kind and glitch flag are.
C12_NextKindDecides ==
  (   TransitionDone
   /\ wave.wave_type = "bit"
   /\ \/ /\ last_wave.wave_type = "bit"
         /\ last_wave.bit_end_position # wave.bit_start_position
      \/ last_wave.wave_type = "bus") =>
    /\ result.err = "none"
    /\ Len(result.ret) = 1
    /\ ShapeFamily(result.ret[1].macro) = KindFamily(wave.bit_transition)
    /\ wave.bit_transition \in {"sharp", "sharparrow"} =>
         result.ret[1].nums[Len(result.ret[1].nums)]
           = Bool2Int(wave.bit_transition = "sharparrow")

\* C12 witness: the bus 2 followed by the arrowed clock P: a sharp transition
\* with its arrow, although the bus's own kind is smooth.
C12_Witness ==
  /\ TransitionDone
  /\ last_wave = WAVEDROM_NAMES["2"]
  /\ wave = WAVEDROM_NAMES["P"]
  /\ last_wave.bit_transition = "smooth"
  /\ result.ret[1].macro = "bricksharpbustobit"
  /\ result.ret[1].nums[3] = 1

\* A finished direct call of get_transition_brick from a bus to a bit.
BusToBitDone ==
  /\ TransitionDone
  /\ last_wave.wave_type = "bus"
  /\ wave.wave_type = "bit"

\* C13 as stated: every bus-to-bit call, whatever next's transition kind,
\* carries the bus's fill style as its previous style, next's line style and
\* next's start level.
C13_BusStyleAlways ==
  BusToBitDone =>
    /\ result.err = "none"
    /\ Len(result.ret) = 1
    /\ Len(result.ret[1].styles) = 2
    /\ result.ret[1].styles[1] = last_wave.bus_style
    /\ result.ret[1].styles[2] = wave.bit_style
    /\ result.ret[1].nums[2] = wave.bit_start_position

\* C13 amended: a bus-to-bit call carries the bus's fill style as its previous
\* style, next's line style and next's start level when next's transition kind
\* is smooth or curved; when it is sharp or sharparrow the call carries next's
\* line style, next's start level and the arrow flag, and no bus style.
C13_BusStyleSmoothCurved ==
  BusToBitDone =>
    /\ result.err = "none"
    /\ Len(result.ret) = 1
    /\ result.ret[1].nums[1] = brick_width
    /\ result.ret[1].nums[2] = wave.bit_start_position
    /\ IF wave.bit_transition \in {"smooth", "curved"}
       THEN /\ result.ret[1].styles = <<last_wave.bus_style, wave.bit_style>>
            /\ Len(result.ret[1].nums) = 2
       ELSE /\ result.ret[1].styles = <<wave.bit_style>>
            /\ Len(result.ret[1].nums) = 3
            /\ result.ret[1].nums[3]
                 = Bool2Int(wave.bit_transition = "sharparrow")

\* C13 witness: the yellow bus 3 followed by logic 0, a smooth transition
\* that closes the bus in the bus's own style.
C13_Witness ==
  /\ BusToBitDone
  /\ last_wave = WAVEDROM_NAMES["3"]
  /\ wave = WAVEDROM_NAMES["0"]
  /\ result.ret[1].macro = "bricksmoothbustobit"
  /\ result.ret[1].styles[1] = WAVEDROM_NAMES["3"].bus_style

\* C14: the assert-False branches of get_transition_brick cannot be taken:
\* called on any ordered pair of descriptors of WAVEDROM_NAMES it returns
\* exactly one call and raises nothing; and a render_waveform of a wave over
\* the symbol set, "." and "|" with an accepted period raises no
\* AssertionError, neither as the function runs nor in its loop of lines
\* 698-772 evaluated on the same arguments.
C14_AssertsUnreachable ==
  /\ (TransitionDone /\ last_wave \in Descriptors /\ wave \in Descriptors) =>
       /\ result.err = "none"
       /\ Len(result.ret) = 1
  /\ (   CompileDone
      /\ WellFormed(signal_params.wave)
      /\ signal_params.wave # <<>>
      /\ PeriodAccepted(signal_params.period)) =>
       /\ result.err # "AssertionError"
       /\ Compile(signal_params.wave,
                  PadNode(signal_params.wave, signal_params.node),
                  signal_params.data, signal_params.phase,
                  signal_params.period).err # "AssertionError"

\* C14 witness: logic 1 followed by the bus 2, the pairing of a bit with a
\* bus, answered by one call.
C14_Witness ==
  /\ TransitionDone
  /\ last_wave = WAVEDROM_NAMES["1"]
  /\ wave = WAVEDROM_NAMES["2"]
  /\ result.err = "none"
  /\ Len(result.ret) = 1
  /\ result.ret[1].macro = "bricksmoothbittobus"

\* The symbols of the static bit descriptors and of the clock edges.
StaticBitSymbols == {"0", "1", "d", "u", "z", "l", "L", "h", "H"}

ClockEdgeSymbols == {"p", "P", "n", "N"}

\* The levels 0, 0.5 and 1, in halves.
BitLevels == {0, 1, 2}

\* C15: in every state of every run the table is the one built at import:
\* the descriptors of 0, 1, d, u, z, l, L, h, H are bits whose start level
\* equals their end level; the bit descriptors whose start level differs from
\* their end level are exactly those of p, P, n, N; every bit descriptor has
\* both levels in {0, 0.5, 1}; and no call has changed any entry.
C15_TableInvariant ==
  /\ names = WAVEDROM_NAMES
  /\ DOMAIN names = SymbolSet
  /\ \A c \in StaticBitSymbols :
       /\ names[c].wave_type = "bit"
       /\ names[c].bit_start_position = names[c].bit_end_position
  /\ \A c \in SymbolSet :
       (   names[c].wave_type = "bit"
        /\ names[c].bit_start_position # names[c].bit_end_position)
         <=> c \in ClockEdgeSymbols
  /\ \A c \in SymbolSet :
       names[c].wave_type = "bit" =>
         /\ names[c].bit_start_position \in BitLevels
         /\ names[c].bit_end_position \in BitLevels

\* C15 witness: get_brick has drawn the second half of the clock edge p with
\* its levels swapped, and the entry of p still runs from 1 down to 0.
C15_Witness ==
  /\ fn = "get_brick"
  /\ pc = "done"
  /\ wave = names["p"]
  /\ \E k \in DOMAIN bricks :
       /\ bricks[k].odd_brick = 1
       /\ bricks[k].call.nums[2] = names["p"].bit_end_position
       /\ bricks[k].call.nums[3] = names["p"].bit_start_position
  /\ names["p"].bit_start_position = 2
  /\ names["p"].bit_end_position = 0

\* The number of characters of the wave that start a bus value.
NumBusStarts(w) == Cardinality({ i \in DOMAIN w : w[i] \in BusStartChars })

\* The bookmarks and anchors of a sequence of lines, in order.
BusMarks(lines) ==
  SelectSeq(lines, LAMBDA c : c.macro \in {"coordinate bus start", "coordinate bus"})

\* Bookmark and anchor alternate, bookmark first and anchor last, and the
\* anchors are numbered 0, 1, 2, ... in order.
MarksPaired(marks) ==
  /\ Len(marks) % 2 = 0
  /\ \A k \in DOMAIN marks :
       IF k % 2 = 1
       THEN marks[k] = CoordBusStart
       ELSE marks[k] = CoordBus(k \div 2 - 1)

\* C16: after the compile of a wave over the symbol set, "." and "|", no span
\* is left open: every bus-start bookmark is followed by exactly one anchor
\* before the next bookmark or the end, the anchors are numbered 0, 1, 2, ...
\* in emission order, and there are as many anchors as the wave has
\* characters among = 2 3 4 5 (x and the markers open and close nothing).
C16_SpansClosed ==
  (   CompileDone
   /\ WellFormed(signal_params.wave)
   /\ PeriodAccepted(signal_params.period)) =>
    /\ MarksPaired(BusMarks(result.ret))
    /\ Len(CallsOf(result.ret, "coordinate bus"))
         = NumBusStarts(signal_params.wave)

====
